---- MODULE Spec2Model ----
(***************************************************************************)
(* Model of the streaming highlight composable useHighlight                *)
(* (packages/x-markdown/src/hooks/useHighlight.ts): one session of the     *)
(* hook, the module-level shiki loader, the two watchers, the async        *)
(* functions initHighlighter and updateTokens with their suspension        *)
(* points, and the shiki-stream tokenizer the hook drives.                 *)
(*                                                                         *)
(* A text is a sequence of one-character strings.  Every await of the      *)
(* source is a suspension point: the code before it belongs to the action  *)
(* that makes the call, the code after it to the action that resumes it.   *)
(***************************************************************************)
EXTENDS Integers, Sequences, FiniteSets, TLC

\* ---------------------------------------------------------------- bounds
MaxEvents == 2       \* steps the caller takes: assignments to text and options, unmount
MaxTokens == 2       \* tokens in a list given to tokensToLineTokens
MaxContent == 4      \* characters in the contents of such a list, in all

\* ------------------------------------------------------------ value sets
NL == "\n"
Alphabet == {"a", NL}
Langs == {"js"}               \* options.language keeps the value it was given
DefaultTheme == "slack-dark"
OtherTheme == "github-light"
NoTheme == "undefined"
ThemeOptions == {NoTheme, OtherTheme}
Replacements == {"undefined", "map1"}

Undef == [undef |-> TRUE]      \* JavaScript undefined / null for object values

\* the highlighter shiki hands out, one per process
SingletonHighlighter == [undef |-> FALSE]

\* the texts a session starts with; later texts come from the caller's edits
InitialTexts == {<<>>, <<"a">>}

\* one edit of the text: a character appended, the last character removed or
\* replaced, everything removed
Edits(t) ==
  {Append(t, c) : c \in Alphabet}
    \cup (IF t = <<>> THEN {}
          ELSE {SubSeq(t, 1, Len(t) - 1), <<>>,
                SubSeq(t, 1, Len(t) - 1) \o <<IF t[Len(t)] = "a" THEN NL ELSE "a">>})

\* ------------------------------------------------------- string helpers
\* String.prototype.startsWith
StartsWith(s, p) ==
  /\ Len(p) <= Len(s)
  /\ SubSeq(s, 1, Len(p)) = p

\* String.prototype.slice(from) with 0-based from
SliceFrom(s, from) == SubSeq(s, from + 1, Len(s))

Includes(s, c) == \E i \in 1..Len(s) : s[i] = c

FirstIndex(s, c) == CHOOSE i \in 1..Len(s) : s[i] = c /\ \A j \in 1..(i - 1) : s[j] # c

\* String.prototype.split('\n')
RECURSIVE SplitNL(_)
SplitNL(s) ==
  IF ~Includes(s, NL) THEN <<s>>
  ELSE LET i == FirstIndex(s, NL)
       IN <<SubSeq(s, 1, i - 1)>> \o SplitNL(SubSeq(s, i + 1, Len(s)))

\* ------------------------------------------------- tokensToLineTokens
\* variant: the current line is kept
StartNewLine_Same(lines) == lines

StartNewLine(lines) == Append(lines, <<>>)

\* variant: the token goes to the front of the current line
PushToken_Front(lines, token) == [lines EXCEPT ![Len(lines)] = <<token>> \o @]

PushToken(lines, token) == [lines EXCEPT ![Len(lines)] = Append(@, token)]

\* segments.forEach((segment, index) => ...) from index on
RECURSIVE AddSegments(_, _, _, _)
AddSegments(lines, token, segments, index) ==
  IF index > Len(segments) THEN lines
  ELSE LET pushed == IF segments[index] # <<>>
                     THEN PushToken(lines, [token EXCEPT !.content = segments[index]])
                     ELSE lines
           broken == IF index < Len(segments) THEN StartNewLine(pushed) ELSE pushed
       IN AddSegments(broken, token, segments, index + 1)

AddToken(lines, token) ==
  IF token.content = <<NL>> THEN StartNewLine(lines)
  ELSE IF ~Includes(token.content, NL) THEN PushToken(lines, token)
  ELSE AddSegments(lines, token, SplitNL(token.content), 1)

RECURSIVE AddTokens(_, _)
AddTokens(lines, tokens) ==
  IF tokens = <<>> THEN lines
  ELSE AddTokens(AddToken(lines, Head(tokens)), Tail(tokens))

\* variant: no line for no tokens
tokensToLineTokens_NoLine(tokens) ==
  IF Len(tokens) = 0 THEN <<>>
  ELSE LET lines == AddTokens(<< <<>> >>, tokens)
       IN IF Len(lines) = 0 THEN << <<>> >> ELSE lines

tokensToLineTokens(tokens) ==
  IF Len(tokens) = 0 THEN << <<>> >>
  ELSE LET lines == AddTokens(<< <<>> >>, tokens)
       IN IF Len(lines) = 0 THEN << <<>> >> ELSE lines

\* ------------------------------------------------------ createPreStyle
ThemeBg(theme) == IF theme = DefaultTheme THEN "#222222" ELSE "#ffffff"
ThemeFg(theme) == IF theme = DefaultTheme THEN "#e6e6e6" ELSE "#24292e"

createPreStyle(bg, fg) ==
  IF bg = "" /\ fg = "" THEN Undef
  ELSE [backgroundColor |-> bg, color |-> fg]

\* ------------------------------------------- the shiki-stream tokenizer
\* A tokenizer is [id, lang, theme, buf, fed]: buf is the text it has processed
\* since it was constructed or last cleared, fed the chunks its enqueue has
\* been called with since then, settled or not.  Every complete line of buf is
\* stable (its tokens, then a "\n" token), the last line is unstable.
LineTokens(line, theme) ==
  IF line = <<>> THEN <<>> ELSE <<[content |-> line, color |-> ThemeFg(theme)]>>

RECURSIVE StableOf(_, _)
StableOf(chunkLines, theme) ==
  IF Len(chunkLines) <= 1 THEN <<>>
  ELSE LineTokens(Head(chunkLines), theme)
         \o <<[content |-> <<NL>>, color |-> ""]>>
         \o StableOf(Tail(chunkLines), theme)

tokensStable(tk) == StableOf(SplitNL(tk.buf), tk.theme)

tokensUnstable(tk) ==
  LET chunkLines == SplitNL(tk.buf)
  IN LineTokens(chunkLines[Len(chunkLines)], tk.theme)

NewTokenizer(id, lang, theme) ==
  [id |-> id, lang |-> lang, theme |-> theme, buf |-> <<>>, fed |-> <<>>]

Clear(tk) == [tk EXCEPT !.buf = <<>>, !.fed = <<>>]

\* the call tokenizer.enqueue(chunk), before its promise settles
Enqueued(tk, chunk) == [tk EXCEPT !.fed = @ \o chunk]

Process(tk, chunk) == [tk EXCEPT !.buf = @ \o chunk]

\* ---------------------------------------------------------------- state
VARIABLES
  text,                \* text.value, the caller's Ref<string>
  seenText,            \* the value the text watcher last saw (its oldValue)
  opts,                \* options: streaming, language, theme, colorReplacements
  cfgPending,          \* the config watcher's job is queued
  unmounted,           \* onUnmounted has run (the watchers are stopped)
  shikiModulePromise,  \* module-level: "null" | "pending" | "module" | "failed"
  tokenizer,           \* the held ShikiStreamTokenizer, or Undef
  previousText,
  highlighter,         \* Undef or SingletonHighlighter
  streaming,           \* streaming.value: Undef or [colorReplacements, lines, preStyle]
  isLoading,
  error,               \* "null" or the error last caught
  inits,               \* initHighlighter invocations suspended at an await
  calls,               \* updateTokens invocations suspended at await enqueue
  events,              \* steps the caller has taken so far
  last,                \* history: what the latest step called on the tokenizer
  peer,                \* a second useHighlight call in the same process, if any
  probe                \* a call of one of the pure functions: its arguments and result

vars == <<text, seenText, opts, cfgPending, unmounted, shikiModulePromise, tokenizer,
          previousText, highlighter, streaming, isLoading, error, inits, calls, events,
          last, peer, probe>>

\* the session's own fields and what it publishes
session == <<tokenizer, previousText, highlighter, streaming, isLoading, error>>

effectiveTheme(o) == IF o.theme = NoTheme THEN DefaultTheme ELSE o.theme

\* variant: no line stands in for a missing result
lines_NoDefault == IF streaming = Undef THEN <<>> ELSE streaming.lines

\* const lines = computed(() => streaming.value?.lines || [[]])
lines == IF streaming = Undef THEN << <<>> >> ELSE streaming.lines

\* const preStyle = computed(() => streaming.value?.preStyle)
preStyle == IF streaming = Undef THEN Undef ELSE streaming.preStyle

\* ------------------------------------------------------------- history
ClearOp == [op |-> "clear", chunk |-> <<>>]
EnqueueOp(chunk) == [op |-> "enqueue", chunk |-> chunk]

\* update: the step ran updateTokens past its guard (a tokenizer is held);
\* force, p, n: its forceReset, previousText on entry, nextText; ops: the calls
\* the step made on the tokenizer, in order; end: the invocation that came to
\* its end in the step and how, or "init-started" when the step entered
\* initHighlighter with streaming on; built: the step constructed a tokenizer
Quiet == [update |-> FALSE, force |-> FALSE, p |-> <<>>, n |-> <<>>, ops |-> <<>>,
          end |-> "", built |-> FALSE]

Ended(how) == [Quiet EXCEPT !.end = how]

\* ------------------------------------------------------- updateTokens
\* const canAppend = !forceReset && nextText.startsWith(previousText)
CanAppend(prev, nextText, forceReset) == ~forceReset /\ StartsWith(nextText, prev)

\* variant: the whole text is fed although it only grew
PlanChunk_Whole(prev, nextText, forceReset) == nextText

\* let chunk = nextText; if (canAppend) chunk = nextText.slice(previousText.length)
PlanChunk(prev, nextText, forceReset) ==
  IF CanAppend(prev, nextText, forceReset) THEN SliceFrom(nextText, Len(prev))
  ELSE nextText

\* variant: the else-if branch is missing, only a forced reset clears
PlanClears_ForcedOnly(prev, nextText, forceReset) == forceReset

\* tokenizer.clear() is called by the forceReset branch or by the else-if branch
PlanClears(prev, nextText, forceReset) ==
  forceReset \/ ~CanAppend(prev, nextText, forceReset)

\* variant: the unstable tokens are left out of the merge
Published_StableOnly(tk, replacements, old) ==
  [colorReplacements |-> replacements,
   lines |-> IF Len(tokensStable(tk)) > 0 THEN tokensToLineTokens(tokensStable(tk))
             ELSE << <<>> >>,
   preStyle |-> IF old = Undef THEN Undef ELSE old.preStyle]

\* variant: the container style is not carried over
Published_Unstyled(tk, replacements, old) ==
  [colorReplacements |-> replacements,
   lines |-> tokensToLineTokens(tokensStable(tk) \o tokensUnstable(tk)),
   preStyle |-> Undef]

\* variant: the provisional tokens are put in front of the stable ones
Published_UnstableFirst(tk, replacements, old) ==
  [colorReplacements |-> replacements,
   lines |-> tokensToLineTokens(tokensUnstable(tk) \o tokensStable(tk)),
   preStyle |-> IF old = Undef THEN Undef ELSE old.preStyle]

\* the value assigned to streaming.value from the tokenizer's tokens
Published(tk, replacements, old) ==
  LET mergedTokens == tokensStable(tk) \o tokensUnstable(tk)
  IN [colorReplacements |-> replacements,
      lines |-> IF Len(mergedTokens) > 0 THEN tokensToLineTokens(mergedTokens)
                ELSE << <<>> >>,
      preStyle |-> IF old = Undef THEN Undef ELSE old.preStyle]

\* variant: the text of the update is not recorded
RecordedText_Kept(prev, nextText) == prev

\* previousText after the plan: previousText = nextText
RecordedText(prev, nextText) == nextText

FreshId(used) == CHOOSE i \in 1..(Cardinality(used) + 1) :
                   i \notin used /\ \A j \in 1..(i - 1) : j \in used

\* updateTokens(nextText, forceReset) up to its return or its await, entered
\* with tokenizer tk (not null) and previousText prev; parent is the id of the
\* initHighlighter invocation awaiting it, 0 for the text watcher
UpdateTokensCall(tk, prev, nextText, forceReset, parent) ==
  LET prev1 == IF forceReset THEN <<>> ELSE prev
      clears == PlanClears(prev1, nextText, forceReset)
      chunk == PlanChunk(prev1, nextText, forceReset)
      tk1 == IF clears THEN Clear(tk) ELSE tk
  IN /\ previousText' = RecordedText(prev1, nextText)
     /\ tokenizer' = IF chunk # <<>> THEN Enqueued(tk1, chunk) ELSE tk1
     /\ last' = [update |-> TRUE, force |-> forceReset, p |-> prev, n |-> nextText,
                 ops |-> (IF clears THEN <<ClearOp>> ELSE <<>>)
                           \o (IF chunk # <<>> THEN <<EnqueueOp(chunk)>> ELSE <<>>),
                 end |-> IF chunk = <<>> THEN "update-published" ELSE "",
                 built |-> forceReset]
     /\ IF chunk = <<>>
        THEN /\ streaming' = Published(tk1, opts.colorReplacements, streaming)
             /\ calls' = calls
        ELSE /\ calls' = Append(calls, [tk |-> tk1.id, chunk |-> chunk,
                                        parent |-> parent])
             /\ streaming' = streaming

\* ------------------------------------------------------------- release
\* the release block shared by initHighlighter (streaming off) and onUnmounted:
\* tokenizer?.clear(); tokenizer = null; previousText = ''
\* variant: the reference is kept
ReleasedTokenizer_Held(tk) == tk

\* tokenizer = null
ReleasedTokenizer(tk) == Undef

\* variant: the text record survives the release
ReleasedText_Kept(prev) == prev

\* previousText = ''
ReleasedText(prev) == <<>>

\* variant: the published result survives the switch to non-streaming
DisabledResult_Kept(old) == old

\* streaming.value = undefined
DisabledResult(old) == Undef

\* variant: teardown also throws the module-level promise away
TeardownPromise_Reset(promise) == "null"

\* onUnmounted assigns the variables of its own closure only: the module-level
\* shikiModulePromise is as it was
TeardownPromise(promise) == promise

\* tokenizer?.clear(): the call is made only when a tokenizer is held
ReleaseOps(tk) == IF tk # Undef THEN <<ClearOp>> ELSE <<>>

\* ------------------------------------------------------ in-flight work
InitIds == {inits[k].id : k \in 1..Len(inits)}
CallTks == {calls[k].tk : k \in 1..Len(calls)}

RemoveAt(seq, k) == SubSeq(seq, 1, k - 1) \o SubSeq(seq, k + 1, Len(seq))

\* variant: the finally block is missing
FinallyLoading_Kept(loading) == loading

\* finally { isLoading.value = false }
FinallyLoading(loading) == FALSE

\* variant: the text record is not reset when a tokenizer is installed
InstalledText_Kept(prev) == prev

\* previousText = '' right after tokenizer = new ShikiStreamTokenizer(...)
InstalledText(prev) == <<>>

\* the finally block of initHighlighter, after which the invocation is over
EndInit(k) ==
  /\ isLoading' = FinallyLoading(isLoading)
  /\ inits' = RemoveAt(inits, k)

\* variant: every call starts an import
loadShiki_Always(promise) == "pending"

\* variant: a failed import is started again by the next call
loadShiki_Retry(promise) == IF promise \in {"null", "failed"} THEN "pending" ELSE promise

\* loadShiki(): the first caller starts the import, later callers share it
loadShiki(promise) == IF promise = "null" THEN "pending" ELSE promise

\* initHighlighter() from its first line to its first await or its return
InitHighlighterCall ==
  IF ~opts.streaming
  THEN /\ tokenizer' = ReleasedTokenizer(tokenizer)
       /\ previousText' = ReleasedText(previousText)
       /\ streaming' = DisabledResult(streaming)
       /\ last' = [Ended("released") EXCEPT !.ops = ReleaseOps(tokenizer)]
       /\ UNCHANGED <<highlighter, isLoading, error, shikiModulePromise, inits, calls>>
  ELSE /\ isLoading' = TRUE
       /\ error' = "null"
       /\ shikiModulePromise' = loadShiki(shikiModulePromise)
       /\ inits' = Append(inits, [id |-> FreshId(InitIds), pc |-> "load",
                                  theme |-> "", preStyle |-> Undef])
       /\ last' = Ended("init-started")
       /\ UNCHANGED <<tokenizer, previousText, highlighter, streaming, calls>>

\* ----------------------------------------------------------------- Init
\* useHighlight(text, options) has run: the config watcher is immediate, so
\* initHighlighter has been called once, synchronously
SessionInit ==
  /\ text \in InitialTexts
  /\ seenText = text
  /\ opts \in [streaming : BOOLEAN, language : Langs, theme : {NoTheme},
               colorReplacements : {"undefined"}]
  /\ cfgPending = FALSE
  /\ unmounted = FALSE
  /\ tokenizer = Undef
  /\ previousText = <<>>
  /\ highlighter = Undef
  /\ streaming = Undef
  /\ error = "null"
  /\ calls = <<>>
  /\ last = Quiet
  /\ isLoading = opts.streaming
  /\ inits = IF opts.streaming
             THEN <<[id |-> 1, pc |-> "load", theme |-> "", preStyle |-> Undef]>>
             ELSE <<>>

\* the module-level promise after the session's immediate initHighlighter call
PromiseAfterSetup(streamingOn) == IF streamingOn THEN loadShiki("null") ELSE "null"

\* no second session
AbsentPeer ==
  [present |-> FALSE, unmounted |-> FALSE, text |-> <<>>, pc |-> "idle",
   tokenizer |-> Undef, previousText |-> <<>>, streaming |-> Undef,
   isLoading |-> FALSE, error |-> "null", chunk |-> <<>>, preStyle |-> Undef]

\* no pure function is under study
NoProbe == [kind |-> "none"]

Init ==
  /\ SessionInit
  /\ events = 0
  /\ shikiModulePromise = PromiseAfterSetup(opts.streaming)
  /\ peer = AbsentPeer
  /\ probe = NoProbe

\* ---------------------------------------------------- the caller's steps
\* the caller (a mounted component) assigns text.value or a field of options
CallerStep ==
  /\ ~unmounted
  /\ events < MaxEvents
  /\ events' = events + 1
  /\ last' = Quiet
  /\ UNCHANGED <<unmounted, shikiModulePromise, session, inits, calls, peer, probe>>

\* text.value = t; the text watcher's job is queued
SetText(t) ==
  /\ t \in Edits(text)
  /\ text' = t
  /\ CallerStep
  /\ UNCHANGED <<seenText, opts, cfgPending>>

\* options.streaming, options.language or options.theme is assigned; the config
\* watcher's job is queued
Configure(field, value) ==
  /\ opts[field] # value
  /\ opts' = [opts EXCEPT ![field] = value]
  /\ cfgPending' = TRUE
  /\ CallerStep
  /\ UNCHANGED <<text, seenText>>

\* variant: the map is among the sources of the config watcher
ConfigJobAfterReplacements_Tracked(pending) == TRUE

\* the getter of the config watcher reads options.streaming, options.language
\* and effectiveTheme.value only: its job is queued no more than it was
ConfigJobAfterReplacements(pending) == pending

\* options.colorReplacements is assigned, which no watcher tracks
SetColorReplacements(r) ==
  /\ r # opts.colorReplacements
  /\ opts' = [opts EXCEPT !.colorReplacements = r]
  /\ cfgPending' = ConfigJobAfterReplacements(cfgPending)
  /\ CallerStep
  /\ UNCHANGED <<text, seenText>>

\* ------------------------------------------------------------- watchers
\* watch(() => [options.streaming, options.language, effectiveTheme.value], ...)
WatchConfig ==
  /\ cfgPending
  /\ ~unmounted
  /\ cfgPending' = FALSE
  /\ InitHighlighterCall
  /\ UNCHANGED <<text, seenText, opts, unmounted, events, peer, probe>>

\* watch(text, (newText) => { if (options.streaming && tokenizer) updateTokens(newText) })
\* the watchers' jobs run in the order the watchers were created
\* variant: the callback takes its second parameter, the old value
NewText_Old(oldValue, value) == oldValue

\* the callback's first parameter is the watched value as it is when the job runs
NewText(oldValue, value) == value

\* variant: the text is recorded although no tokenizer is held
SkippedText_Recorded(prev, nextText) == nextText

\* the callback does not call updateTokens, and updateTokens returns at
\* if (!tokenizer) return: previousText is as it was
SkippedText(prev, nextText) == prev

WatchText ==
  /\ seenText # text
  /\ ~cfgPending
  /\ ~unmounted
  /\ seenText' = text
  /\ IF opts.streaming /\ tokenizer # Undef
     THEN UpdateTokensCall(tokenizer, previousText, NewText(seenText, text), FALSE, 0)
     ELSE /\ last' = Quiet
          /\ previousText' = SkippedText(previousText, NewText(seenText, text))
          /\ UNCHANGED <<tokenizer, streaming, calls>>
  /\ UNCHANGED <<text, opts, cfgPending, unmounted, events, shikiModulePromise,
                 highlighter, isLoading, error, inits, peer, probe>>

\* onUnmounted(() => { tokenizer?.clear(); tokenizer = null; previousText = '' })
Unmount ==
  /\ ~unmounted
  /\ events < MaxEvents
  /\ events' = events + 1
  /\ unmounted' = TRUE
  /\ cfgPending' = FALSE
  /\ tokenizer' = ReleasedTokenizer(tokenizer)
  /\ previousText' = ReleasedText(previousText)
  /\ last' = [Ended("released") EXCEPT !.ops = ReleaseOps(tokenizer)]
  /\ shikiModulePromise' = TeardownPromise(shikiModulePromise)
  /\ UNCHANGED <<text, seenText, opts, highlighter, streaming, isLoading, error, inits,
                 calls, peer, probe>>

\* ------------------------------------------------------ the environment
\* import('shiki') settles; .catch(() => null) turns a failure into null
ImportSettles(ok) ==
  /\ shikiModulePromise = "pending"
  /\ shikiModulePromise' = IF ok THEN "module" ELSE "failed"
  /\ last' = Quiet
  /\ UNCHANGED <<text, seenText, opts, cfgPending, unmounted, events, session, inits,
                 calls, peer, probe>>

\* ------------------------------------- updateTokens after await enqueue
\* try { await enqueue; streaming.value = {...} } catch (err) { error.value = err }
\* st is how the enqueue promise settled, tk the tokenizer variable at that
\* moment: reading tokensStable of a tokenizer dropped meanwhile throws inside
\* the try
\* variant: the catch block blanks the result
SettledStreaming_Blank(st, tk, replacements, old) ==
  IF st = "done" /\ tk # Undef THEN Published(tk, replacements, old) ELSE Undef

\* variant: the catch block only logs
SettledError_Silent(st, tk, err) ==
  IF st = "done" /\ tk = Undef THEN "TypeError" ELSE err

SettledStreaming(st, tk, replacements, old) ==
  IF st = "done" /\ tk # Undef THEN Published(tk, replacements, old) ELSE old

\* variant: a successful update clears the error
SettledError_Cleared(st, tk, err) ==
  IF st = "failed" THEN "EnqueueFailed"
  ELSE IF tk = Undef THEN "TypeError"
  ELSE "null"

SettledError(st, tk, err) ==
  IF st = "failed" THEN "EnqueueFailed"
  ELSE IF tk = Undef THEN "TypeError"
  ELSE err

InitIndex(id) == CHOOSE k \in 1..Len(inits) : inits[k].id = id

\* the promise of calls[k] settles and updateTokens resumes.  The tokenizer takes
\* the chunk into its token sets when the enqueue succeeds (ok); a tokenizer that
\* is no longer held works on a buffer nobody reads
EnqueueSettles(k, ok) ==
  /\ k \in 1..Len(calls)
  /\ LET st == IF ok THEN "done" ELSE "failed"
         tk == IF ok /\ tokenizer # Undef /\ tokenizer.id = calls[k].tk
               THEN Process(tokenizer, calls[k].chunk)
               ELSE tokenizer
     IN /\ tokenizer' = tk
        /\ streaming' = SettledStreaming(st, tk, opts.colorReplacements, streaming)
        /\ error' = SettledError(st, tk, error)
  /\ calls' = RemoveAt(calls, k)
  /\ inits' = IF calls[k].parent = 0 THEN inits
              ELSE [inits EXCEPT ![InitIndex(calls[k].parent)].pc = "finish"]
  /\ last' = Ended(IF ~ok THEN "update-failed"
                   ELSE IF tokenizer = Undef THEN "update-threw"
                   ELSE "update-published")
  /\ UNCHANGED <<text, seenText, opts, cfgPending, unmounted, events, shikiModulePromise,
                 previousText, highlighter, isLoading, peer, probe>>

\* ------------------------------------ initHighlighter after its awaits
\* const mod = await loadShiki(); if (!mod) throw ...; then the call of
\* mod.getSingletonHighlighter with the options current at that moment
InitAfterLoad(k) ==
  /\ k \in 1..Len(inits)
  /\ inits[k].pc = "load"
  /\ shikiModulePromise \in {"module", "failed"}
  /\ IF shikiModulePromise = "failed"
     THEN /\ error' = "LoadFailed"
          /\ EndInit(k)
          /\ last' = Ended("init-failed")
     ELSE /\ inits' = [inits EXCEPT ![k].pc = "highlighter",
                                    ![k].theme = effectiveTheme(opts)]
          /\ last' = Quiet
          /\ UNCHANGED <<error, isLoading>>
  /\ UNCHANGED <<text, seenText, opts, cfgPending, unmounted, events, shikiModulePromise,
                 tokenizer, previousText, highlighter, streaming, calls, peer, probe>>

\* highlighter = await mod.getSingletonHighlighter(...) and the rest of the try
\* block up to await updateTokens(text.value, true).  ok: the promise fulfilled;
\* themeLoaded: highlighter.getTheme finds the theme, which is certain only for
\* the theme this invocation asked the highlighter to load
InitAfterHighlighter(k, ok, themeLoaded) ==
  /\ k \in 1..Len(inits)
  /\ inits[k].pc = "highlighter"
  /\ themeLoaded \/ inits[k].theme # effectiveTheme(opts)
  /\ IF ~ok
     THEN /\ themeLoaded
          /\ error' = "HighlighterFailed"
          /\ EndInit(k)
          /\ last' = Ended("init-failed")
          /\ UNCHANGED <<tokenizer, previousText, highlighter, streaming, calls>>
     ELSE LET tk == NewTokenizer(FreshId(CallTks), opts.language, effectiveTheme(opts))
              preStyleValue == createPreStyle(ThemeBg(effectiveTheme(opts)),
                                              ThemeFg(effectiveTheme(opts)))
          IN /\ highlighter' = SingletonHighlighter
             /\ IF ~themeLoaded
                THEN /\ tokenizer' = tk
                     /\ previousText' = InstalledText(previousText)
                     /\ error' = "ThemeNotFound"
                     /\ EndInit(k)
                     /\ last' = [Ended("init-failed") EXCEPT !.built = TRUE]
                     /\ UNCHANGED <<streaming, calls>>
                ELSE IF text # <<>>
                THEN /\ UpdateTokensCall(tk, InstalledText(previousText), text, TRUE,
                                           inits[k].id)
                     /\ inits' = [inits EXCEPT ![k].pc = "update",
                                                ![k].preStyle = preStyleValue]
                     /\ UNCHANGED <<error, isLoading>>
                ELSE /\ tokenizer' = tk
                     /\ previousText' = InstalledText(previousText)
                     /\ streaming' = [colorReplacements |-> opts.colorReplacements,
                                      lines |-> << <<>> >>,
                                      preStyle |-> preStyleValue]
                     /\ EndInit(k)
                     /\ last' = [Ended("init-done") EXCEPT !.built = TRUE]
                     /\ UNCHANGED <<error, calls>>
  /\ UNCHANGED <<text, seenText, opts, cfgPending, unmounted, events,
                 shikiModulePromise, peer, probe>>

\* after await updateTokens(text.value, true):
\* if (streaming.value) streaming.value.preStyle = preStyleValue; then finally
InitFinish(k) ==
  /\ k \in 1..Len(inits)
  /\ inits[k].pc = "finish"
  /\ streaming' = IF streaming # Undef
                  THEN [streaming EXCEPT !.preStyle = inits[k].preStyle]
                  ELSE streaming
  /\ EndInit(k)
  /\ last' = Ended("init-done")
  /\ UNCHANGED <<text, seenText, opts, cfgPending, unmounted, events, shikiModulePromise,
                 tokenizer, previousText, highlighter, error, calls, peer, probe>>

\* ----------------------------------------------------------------- Next
Next ==
  \/ \E t \in Edits(text) : SetText(t)
  \/ \E s \in BOOLEAN : Configure("streaming", s)
  \/ \E th \in ThemeOptions : Configure("theme", th)
  \/ \E r \in Replacements : SetColorReplacements(r)
  \/ WatchConfig
  \/ WatchText
  \/ Unmount
  \/ \E ok \in BOOLEAN : ImportSettles(ok)
  \/ \E k \in 1..Len(calls), ok \in BOOLEAN : EnqueueSettles(k, ok)
  \/ \E k \in 1..Len(inits) : InitAfterLoad(k)
  \/ \E k \in 1..Len(inits), ok \in BOOLEAN, themeLoaded \in BOOLEAN :
       InitAfterHighlighter(k, ok, themeLoaded)
  \/ \E k \in 1..Len(inits) : InitFinish(k)

Spec == Init /\ [][Next]_vars

\* the event loop resumes every suspended invocation whose promise has settled,
\* and every promise the session waits for settles, one way or the other
Fairness ==
  /\ WF_vars(\E ok \in BOOLEAN : ImportSettles(ok))
  /\ WF_vars(\E k \in 1..Len(calls), ok \in BOOLEAN : EnqueueSettles(k, ok))
  /\ WF_vars(\E k \in 1..Len(inits) : InitAfterLoad(k))
  /\ WF_vars(\E k \in 1..Len(inits), ok \in BOOLEAN, themeLoaded \in BOOLEAN :
               InitAfterHighlighter(k, ok, themeLoaded))
  /\ WF_vars(\E k \in 1..Len(inits) : InitFinish(k))

\* the session is set up before any text has arrived; text arrives by SetText
FairInit == Init /\ text = <<>>

FairSpec == FairInit /\ [][Next]_vars /\ Fairness

\* the session when no call of the engine fails: the import, every
\* getSingletonHighlighter, getTheme and enqueue succeed
CalmNext ==
  \/ \E t \in Edits(text) : SetText(t)
  \/ \E s \in BOOLEAN : Configure("streaming", s)
  \/ \E th \in ThemeOptions : Configure("theme", th)
  \/ \E r \in Replacements : SetColorReplacements(r)
  \/ WatchConfig
  \/ WatchText
  \/ Unmount
  \/ ImportSettles(TRUE)
  \/ \E k \in 1..Len(calls) : EnqueueSettles(k, TRUE)
  \/ \E k \in 1..Len(inits) : InitAfterLoad(k)
  \/ \E k \in 1..Len(inits) : InitAfterHighlighter(k, TRUE, TRUE)
  \/ \E k \in 1..Len(inits) : InitFinish(k)

CalmSpec == Init /\ [][CalmNext]_vars

\* ------------------------------------------------------ a second session
\* A second call of useHighlight in the same process: it has its own closure
\* (tokenizer, previousText, streaming, isLoading, error) and shares only the
\* module-level shikiModulePromise.  Its options are a plain object with
\* streaming on, so its config watcher runs once, at setup; its caller appends
\* to its text only while none of its invocations is suspended.
\* peer.pc: "idle" no invocation suspended; "load", "highlighter": its
\* initHighlighter at that await; "update": initHighlighter awaiting updateTokens
\* awaiting enqueue; "finish": initHighlighter about to resume after updateTokens;
\* "call": the text watcher's updateTokens awaiting enqueue
PeerOpts == [streaming |-> TRUE, language |-> "js", theme |-> NoTheme,
             colorReplacements |-> "undefined"]

PeerText == <<"a">>

\* the peer right after its useHighlight call: the immediate config watcher has
\* called initHighlighter, which is suspended at await loadShiki()
PeerStarted ==
  [AbsentPeer EXCEPT !.present = TRUE, !.text = PeerText, !.pc = "load",
                     !.isLoading = TRUE]

\* both useHighlight calls have run; the second is the caller's first step
TwoInit ==
  /\ SessionInit
  /\ events = 1
  /\ shikiModulePromise = loadShiki(PromiseAfterSetup(opts.streaming))
  /\ peer = PeerStarted
  /\ probe = NoProbe

PeerFrame ==
  UNCHANGED <<text, seenText, opts, cfgPending, unmounted, shikiModulePromise, session,
              inits, calls, probe>>

\* the peer's initHighlighter after await loadShiki()
PeerAfterLoad ==
  /\ peer.pc = "load"
  /\ shikiModulePromise \in {"module", "failed"}
  /\ peer' = IF shikiModulePromise = "failed"
             THEN [peer EXCEPT !.error = "LoadFailed", !.isLoading = FALSE,
                               !.pc = "idle"]
             ELSE [peer EXCEPT !.pc = "highlighter"]
  /\ last' = Quiet
  /\ UNCHANGED events
  /\ PeerFrame

\* the peer's initHighlighter after await getSingletonHighlighter(...), up to
\* await updateTokens(text.value, true) or its end
PeerAfterHighlighter(ok) ==
  /\ peer.pc = "highlighter"
  /\ LET tk == NewTokenizer(0, PeerOpts.language, effectiveTheme(PeerOpts))
         preStyleValue == createPreStyle(ThemeBg(effectiveTheme(PeerOpts)),
                                         ThemeFg(effectiveTheme(PeerOpts)))
     IN peer' =
          IF ~ok
          THEN [peer EXCEPT !.error = "HighlighterFailed", !.isLoading = FALSE,
                            !.pc = "idle"]
          ELSE IF peer.text # <<>>
          THEN [peer EXCEPT !.tokenizer = Enqueued(Clear(tk),
                                                     PlanChunk(<<>>, peer.text, TRUE)),
                            !.previousText = RecordedText(<<>>, peer.text),
                            !.chunk = PlanChunk(<<>>, peer.text, TRUE),
                            !.preStyle = preStyleValue,
                            !.pc = "update"]
          ELSE [peer EXCEPT !.tokenizer = tk,
                            !.previousText = <<>>,
                            !.streaming = [colorReplacements |-> PeerOpts.colorReplacements,
                                           lines |-> << <<>> >>,
                                           preStyle |-> preStyleValue],
                            !.isLoading = FALSE,
                            !.pc = "idle"]
  /\ last' = Quiet
  /\ UNCHANGED events
  /\ PeerFrame

\* the peer's updateTokens after await tokenizer.enqueue(chunk)
PeerEnqueueSettles(ok) ==
  /\ peer.pc \in {"update", "call"}
  /\ LET st == IF ok THEN "done" ELSE "failed"
         tk == IF ok /\ peer.tokenizer # Undef
               THEN Process(peer.tokenizer, peer.chunk)
               ELSE peer.tokenizer
     IN peer' = [peer EXCEPT
                   !.tokenizer = tk,
                   !.streaming = SettledStreaming(st, tk, PeerOpts.colorReplacements,
                                                  peer.streaming),
                   !.error = SettledError(st, tk, peer.error),
                   !.chunk = <<>>,
                   !.pc = IF peer.pc = "update" THEN "finish" ELSE "idle"]
  /\ last' = Quiet
  /\ UNCHANGED events
  /\ PeerFrame

\* the peer's initHighlighter after await updateTokens(text.value, true)
PeerInitFinish ==
  /\ peer.pc = "finish"
  /\ peer' = [peer EXCEPT
                !.streaming = IF peer.streaming # Undef
                              THEN [peer.streaming EXCEPT !.preStyle = peer.preStyle]
                              ELSE peer.streaming,
                !.isLoading = FALSE,
                !.pc = "idle"]
  /\ last' = Quiet
  /\ UNCHANGED events
  /\ PeerFrame

\* the peer's caller appends to its text and its text watcher runs
PeerSetText(c) ==
  /\ peer.present
  /\ ~peer.unmounted
  /\ peer.pc = "idle"
  /\ events < MaxEvents
  /\ events' = events + 1
  /\ LET nextText == Append(peer.text, c)
         prev == peer.previousText
         chunk == PlanChunk(prev, nextText, FALSE)
         tk1 == IF PlanClears(prev, nextText, FALSE) THEN Clear(peer.tokenizer)
                ELSE peer.tokenizer
     IN peer' =
          IF ~(PeerOpts.streaming /\ peer.tokenizer # Undef)
          THEN [peer EXCEPT !.text = nextText]
          ELSE IF chunk = <<>>
          THEN [peer EXCEPT !.text = nextText,
                            !.tokenizer = tk1,
                            !.previousText = RecordedText(prev, nextText),
                            !.streaming = Published(tk1, PeerOpts.colorReplacements,
                                                    peer.streaming)]
          ELSE [peer EXCEPT !.text = nextText,
                            !.tokenizer = Enqueued(tk1, chunk),
                            !.previousText = RecordedText(prev, nextText),
                            !.chunk = chunk,
                            !.pc = "call"]
  /\ last' = Quiet
  /\ PeerFrame

\* the peer's onUnmounted
PeerUnmount ==
  /\ peer.present
  /\ ~peer.unmounted
  /\ events < MaxEvents
  /\ events' = events + 1
  /\ peer' = [peer EXCEPT !.unmounted = TRUE,
                          !.tokenizer = ReleasedTokenizer(peer.tokenizer),
                          !.previousText = ReleasedText(peer.previousText)]
  /\ shikiModulePromise' = TeardownPromise(shikiModulePromise)
  /\ last' = Quiet
  /\ UNCHANGED <<text, seenText, opts, cfgPending, unmounted, session, inits, calls,
                 probe>>

TwoNext ==
  \/ Next
  \/ PeerAfterLoad
  \/ \E ok \in BOOLEAN : PeerAfterHighlighter(ok)
  \/ \E ok \in BOOLEAN : PeerEnqueueSettles(ok)
  \/ PeerInitFinish
  \/ \E c \in {"a"} : PeerSetText(c)
  \/ PeerUnmount

TwoSpec == TwoInit /\ [][TwoNext]_vars

\* ---------------------------------- the code block's token styles
\* A color is a string of characters; <<>> is the empty string, which the
\* truthiness tests of getTokenStyle treat like an absent field.
LowerChar(c) == IF c = "F" THEN "f" ELSE c

\* String.prototype.toLowerCase
toLowerCase(str) == [i \in 1..Len(str) |-> LowerChar(str[i])]

\* a replacement map is [given, entries]: given is FALSE for undefined, entries
\* is the object as a function from its keys to its values
\* if (!replacements) return color; return replacements[color.toLowerCase()] || color
applyColorReplacement(color, replacements) ==
  IF ~replacements.given THEN color
  ELSE LET key == toLowerCase(color)
       IN IF key \in DOMAIN replacements.entries /\ replacements.entries[key] # <<>>
          THEN replacements.entries[key]
          ELSE color

\* key.replace(/-([a-z])/g, (_, char) => char.toUpperCase()) on the keys in use
CamelKey(key) ==
  IF key = "background-color" THEN "backgroundColor"
  ELSE IF key = "font-style" THEN "fontStyle"
  ELSE key

\* normalizeStyleKeys: a new object with the camelCase keys
normalizeStyleKeys(style) ==
  [camelKey \in {CamelKey(key) : key \in DOMAIN style}
     |-> style[CHOOSE key \in DOMAIN style : CamelKey(key) = camelKey]]

\* the replacement of one color field of the copied style
ReplacedField(style, field, replacements) ==
  IF field \in DOMAIN style /\ style[field] # <<>>
  THEN [style EXCEPT ![field] = applyColorReplacement(style[field], replacements)]
  ELSE style

\* getTokenStyle(token) with props.colorReplacements = replacements; rawStyle is
\* token.htmlStyle || getTokenStyleObject(token)
getTokenStyle(rawStyle, replacements) ==
  LET baseStyle == normalizeStyleKeys(rawStyle)
  IN IF ~replacements.given THEN baseStyle
     ELSE ReplacedField(ReplacedField(baseStyle, "color", replacements),
                        "backgroundColor", replacements)

\* variant: the colors are assigned to the token's own style object
RawStyleAfter_InPlace(rawStyle, style) == style

\* getTokenStyle assigns to normalized and to the copy { ...baseStyle } only:
\* the token's style object is as it was
RawStyleAfter(rawStyle, style) == rawStyle

\* ------------------------------------------------ the pure functions
SeqsUpTo(S, n) == UNION {[1..m -> S] : m \in 0..n}

TokenColors == {"#111111", "#222222"}

SplitAlphabet == {"a", "b", NL}

RECURSIVE SumOf(_)
SumOf(numbers) == IF numbers = <<>> THEN 0 ELSE Head(numbers) + SumOf(Tail(numbers))

\* the content lengths of the tokens of a list: at most MaxTokens tokens with
\* at most MaxContent characters in all
TokenShapes ==
  {shape \in SeqsUpTo(0..MaxContent, MaxTokens) : SumOf(shape) <= MaxContent}

\* the token lists tokensToLineTokens is called with, by content lengths
RECURSIVE TokenListsOfShape(_)
TokenListsOfShape(shape) ==
  IF shape = <<>> THEN {<<>>}
  ELSE {<<token>> \o rest :
          token \in [content : [1..Head(shape) -> SplitAlphabet], color : TokenColors],
          rest \in TokenListsOfShape(Tail(shape))}

SplitProbe(tokens) == [kind |-> "split", tokens |-> tokens, done |-> FALSE, lines |-> <<>>]

ColorStrings == {<<"#", "f">>, <<"#", "F">>, <<"#", "0">>}
RawKeys == {"color", "background-color", "font-style"}
RawStyles == UNION {[keys -> ColorStrings \cup {<<>>}] : keys \in SUBSET RawKeys}
ReplacementMaps ==
  {[given |-> FALSE, entries |-> <<>>]}
    \cup {[given |-> TRUE, entries |-> entries] :
            entries \in UNION {[keys -> {<<"#", "0">>, <<"#", "F">>}] :
                                 keys \in SUBSET ColorStrings}}

StyleProbes ==
  {[kind |-> "style", rawStyle |-> rawStyle, map |-> map, given |-> rawStyle,
    givenMap |-> map, out |-> <<>>] : rawStyle \in RawStyles, map \in ReplacementMaps}

\* a component that does not stream; the functions are called on their own
PureInit ==
  /\ SessionInit
  /\ text = <<>>
  /\ ~opts.streaming
  /\ events = 0
  /\ shikiModulePromise = PromiseAfterSetup(opts.streaming)
  /\ peer = AbsentPeer
  /\ \/ \E shape \in TokenShapes :
          probe \in {SplitProbe(tokens) : tokens \in TokenListsOfShape(shape)}
     \/ probe \in StyleProbes

PureFrame ==
  UNCHANGED <<text, seenText, opts, cfgPending, unmounted, shikiModulePromise, session,
              inits, calls, events, last, peer>>

\* lines = tokensToLineTokens(tokens)
SplitIntoLines ==
  /\ probe.kind = "split"
  /\ ~probe.done
  /\ probe' = [probe EXCEPT !.done = TRUE, !.lines = tokensToLineTokens(probe.tokens)]
  /\ PureFrame

\* the template renders the token: getTokenStyle(token), up to twice
GetTokenStyle ==
  /\ probe.kind = "style"
  /\ Len(probe.out) < 2
  /\ LET style == getTokenStyle(probe.rawStyle, probe.map)
     IN probe' = [probe EXCEPT !.out = Append(@, style),
                               !.rawStyle = RawStyleAfter(@, style)]
  /\ PureFrame

PureNext ==
  \/ SplitIntoLines
  \/ GetTokenStyle

PureSpec == PureInit /\ [][PureNext]_vars

\* ======================================================================
\* Properties of the interplay of updates and completions
\* ======================================================================
HasEnqueue(ops) == \E i \in 1..Len(ops) : ops[i].op = "enqueue"

\* the step ran the text watcher's updateTokens(newText) with a tokenizer held
WatcherUpdate == last.update /\ ~last.force

\* initHighlighter invocations that have not yet constructed their tokenizer
Constructing == {k \in 1..Len(inits) : inits[k].pc \in {"load", "highlighter"}}

TokenizerOpsInFlight == Len(calls) + Cardinality(Constructing)

\* C1: an update(text) that arrives while an enqueue or a tokenizer construction
\* is in flight is not dispatched to the tokenizer before that operation has
\* completed: when the text watcher's update has just called enqueue, its own
\* call is the only tokenizer operation in flight.
C1_UpdateWaitsForInFlight ==
  (WatcherUpdate /\ HasEnqueue(last.ops)) => TokenizerOpsInFlight = 1

\* C2: of the updates that arrive while one operation is in flight only the
\* last is planned: the chunks of two text-watcher updates are never both
\* in flight behind an operation that was in flight when they arrived.
C2_IntermediateNeverEnqueued ==
  ~(\E i, j, k \in 1..Len(calls) :
      i < j /\ j < k /\ calls[j].parent = 0 /\ calls[k].parent = 0)

\* C3: updates reach the tokenizer in the order of their text snapshots: every
\* step that calls clear or enqueue for an update does so for the snapshot that
\* is the latest at that moment, so no later snapshot was dispatched before it.
C3_DispatchesLatestSnapshot ==
  (last.update /\ last.ops # <<>>) => last.n = text

\* C3 witness: an update is dispatched while the chunk of an earlier one is
\* still in flight
C3_Witness ==
  /\ WatcherUpdate
  /\ HasEnqueue(last.ops)
  /\ Len(calls) >= 2

\* C4 (P1): an update(n) without forceReset with n = p + s, s not empty, does
\* not clear the tokenizer and calls enqueue exactly once, with s.
C4_AppendFeedsSuffix ==
  (WatcherUpdate /\ StartsWith(last.n, last.p) /\ last.n # last.p)
    => last.ops = <<EnqueueOp(SubSeq(last.n, Len(last.p) + 1, Len(last.n)))>>

\* C4 witness: text appended to a non-empty previousText
C4_Witness ==
  /\ WatcherUpdate
  /\ last.p # <<>>
  /\ Len(last.n) > Len(last.p)
  /\ StartsWith(last.n, last.p)
  /\ last.ops = <<EnqueueOp(SubSeq(last.n, Len(last.p) + 1, Len(last.n)))>>

\* C5 (P2): an update(n) whose n does not start with previousText, or a forced
\* one, calls clear() first and then feeds n in full: the only enqueue of the
\* update is enqueue(n), after the clear (an empty n leaves nothing to feed).
C5_ResetClearsThenFeedsAll ==
  (last.update /\ (last.force \/ ~StartsWith(last.n, last.p)))
    => last.ops = <<ClearOp>> \o (IF last.n # <<>> THEN <<EnqueueOp(last.n)>> ELSE <<>>)

\* C5 witness: a text that is not a continuation of a non-empty previousText
C5_Witness ==
  /\ WatcherUpdate
  /\ last.p # <<>>
  /\ last.n # <<>>
  /\ ~StartsWith(last.n, last.p)
  /\ last.ops = <<ClearOp, EnqueueOp(last.n)>>

\* C6 (P5): an update(t) with t = previousText, not forced, calls neither
\* clear() nor enqueue() and publishes the lines of the tokenizer's stable
\* tokens followed by its unstable tokens, with the current colorReplacements.
C6_NoOpRepublishes ==
  (WatcherUpdate /\ last.n = last.p)
    => /\ last.ops = <<>>
       /\ streaming # Undef
       /\ streaming.lines
            = tokensToLineTokens(tokensStable(tokenizer) \o tokensUnstable(tokenizer))
       /\ streaming.colorReplacements = opts.colorReplacements

\* C6 witness: the text equals a non-empty previousText and the tokenizer has
\* tokens to publish
C6_Witness ==
  /\ WatcherUpdate
  /\ last.n = last.p
  /\ last.n # <<>>
  /\ tokenizer.buf = last.n
  /\ streaming.lines # << <<>> >>

\* C7: whenever a tokenizer is held and no update or initialization is in
\* flight, previousText is the text the tokenizer has processed since its last
\* clear.
C7_PreviousTextIsProcessedText ==
  (tokenizer # Undef /\ calls = <<>> /\ inits = <<>>) => previousText = tokenizer.buf

\* C8: once a plan has run, previousText is the nextText of the update, and a
\* failing enqueue does not take that back; so after a failed update(n) the
\* same n is a no-op and n + s feeds s alone.
C8_PreviousTextRecorded ==
  /\ [](last.update => previousText = last.n)
  /\ [][last'.end = "update-failed" => previousText' = previousText]_vars
  /\ []((WatcherUpdate /\ error = "EnqueueFailed" /\ StartsWith(last.n, last.p))
          => last.ops = IF last.n = last.p THEN <<>>
                        ELSE <<EnqueueOp(SubSeq(last.n, Len(last.p) + 1, Len(last.n)))>>)

\* C8 witness: after an enqueue failed and left the tokenizer empty, the grown
\* text feeds its suffix only
C8_Witness ==
  /\ WatcherUpdate
  /\ error = "EnqueueFailed"
  /\ last.p # <<>>
  /\ tokenizer.buf = <<>>
  /\ Len(calls) = 1
  /\ last.ops = <<EnqueueOp(SubSeq(last.n, Len(last.p) + 1, Len(last.n)))>>

\* C9: a failing enqueue sets error to that failure and touches neither the
\* tokenizer nor loading, which is false once no initialization is in flight;
\* later updates are planned and dispatched whatever error holds.
C9_TokenizeFailedRecovered ==
  /\ [][last'.end = "update-failed"
          => /\ error' = "EnqueueFailed"
             /\ tokenizer' = tokenizer
             /\ isLoading' = isLoading]_vars
  /\ []((last.end = "update-failed" /\ inits = <<>>) => ~isLoading)
  /\ []((WatcherUpdate /\ error # "null" /\ last.n # last.p) => last.ops # <<>>)

\* C9 witness: an enqueue has just failed in a session that is ready
C9_Witness ==
  /\ last.end = "update-failed"
  /\ error = "EnqueueFailed"
  /\ tokenizer # Undef
  /\ inits = <<>>
  /\ ~isLoading

\* C10: the step in which an enqueue fails, or an initialization fails, leaves
\* the published lines and container style as they were.
C10_FailureKeepsPublished ==
  [][last'.end \in {"update-failed", "init-failed"}
       => lines' = lines /\ preStyle' = preStyle]_vars

\* C10 witness: an enqueue has just failed while lines were on display
C10_Witness ==
  /\ last.end = "update-failed"
  /\ streaming # Undef
  /\ lines # << <<>> >>
  /\ preStyle # Undef

\* ======================================================================
\* Properties of initialization, configuration and release
\* ======================================================================
InitErrors == {"LoadFailed", "HighlighterFailed", "ThemeNotFound"}

\* the step in which the config watcher ran initHighlighter with streaming off
DisableStep == cfgPending /\ ~cfgPending' /\ ~unmounted' /\ ~opts.streaming

\* the step in which onUnmounted ran
DisposeStep == ~unmounted /\ unmounted'

\* C11: once an initialization has failed (error set, loading false) and until
\* the session is configured again, no initialization is in flight to load the
\* engine or construct a tokenizer, and no update dispatches an enqueue.
C11_InitFailureIsTerminal ==
  (error \in InitErrors /\ inits = <<>>)
    => /\ ~isLoading
       /\ ~(last.update /\ HasEnqueue(last.ops))

\* C13: a tokenizer held while no initialization is in flight or due was
\* constructed for the current language and theme.
C13_TokenizerMatchesConfig ==
  (tokenizer # Undef /\ inits = <<>> /\ ~cfgPending)
    => tokenizer.lang = opts.language /\ tokenizer.theme = effectiveTheme(opts)

\* C14: a held tokenizer is cleared before a newly constructed one takes its
\* place: at the step that constructs a tokenizer the one held until then has
\* empty buffers.
C14_ReplacedTokenizerWasCleared ==
  [][(last'.built /\ tokenizer # Undef) => tokenizer.buf = <<>>]_vars

\* C15: while streaming is off (and the config watcher has run) no tokenizer is
\* held and the published result is cleared, whatever completes meanwhile.
C15_InertWhenDisabled ==
  (~opts.streaming /\ ~cfgPending /\ ~unmounted)
    => tokenizer = Undef /\ streaming = Undef

\* C16: the configure step with streaming off clears the held tokenizer (if
\* any), drops it, empties previousText and clears the published result; it
\* starts no engine load and constructs no tokenizer.
C16_DisableReleases ==
  [][DisableStep
       => /\ last'.ops = (IF tokenizer # Undef THEN <<ClearOp>> ELSE <<>>)
          /\ tokenizer' = Undef
          /\ previousText' = <<>>
          /\ streaming' = Undef
          /\ shikiModulePromise' = shikiModulePromise
          /\ inits' = inits
          /\ calls' = calls
          /\ ~last'.built]_vars

\* C16 witness: streaming was switched off while a tokenizer was held
C16_Witness ==
  /\ last.end = "released"
  /\ ~unmounted
  /\ ~opts.streaming
  /\ last.ops = <<ClearOp>>
  /\ highlighter # Undef
  /\ tokenizer = Undef
  /\ streaming = Undef

\* the config watcher has just run with streaming off in a session that was
\* ready: it held a tokenizer and no initialization was in flight
DisabledWhileReady ==
  /\ last.end = "released"
  /\ ~unmounted
  /\ last.ops = <<ClearOp>>
  /\ inits = <<>>

\* C17 as stated (scenario E): after configure(enabled=false) while ready the
\* session is idle, the tokenizer is released and lines is the empty sequence.
C17_DisabledLinesEmpty ==
  DisabledWhileReady => (tokenizer = Undef /\ ~isLoading /\ lines = <<>>)

\* C17 amended: after configure(enabled=false) while ready the session is idle,
\* the tokenizer is released, nothing is published and lines is one empty line.
C17_DisabledLinesOneEmptyLine ==
  DisabledWhileReady
    => (tokenizer = Undef /\ ~isLoading /\ streaming = Undef /\ lines = << <<>> >>)

\* C17 witness: streaming switched off in a ready session that had text
C17_Witness ==
  /\ DisabledWhileReady
  /\ text # <<>>
  /\ highlighter # Undef
  /\ calls = <<>>

\* C18: once onUnmounted has run the session holds no tokenizer and lines,
\* container style, loading and error never change again.
C18_DisposedIsFinal ==
  /\ [](unmounted => tokenizer = Undef)
  /\ [][unmounted => /\ lines' = lines
                     /\ preStyle' = preStyle
                     /\ isLoading' = isLoading
                     /\ error' = error]_vars

\* C19: a release (onUnmounted, or configure with streaming off) clears the
\* held tokenizer if there is one, drops it and empties previousText without
\* raising an error; a release that finds the session already released leaves
\* the session as it is.
C19_ReleaseIdempotent ==
  [][(DisposeStep \/ DisableStep)
       => /\ last'.ops = (IF tokenizer # Undef THEN <<ClearOp>> ELSE <<>>)
          /\ tokenizer' = Undef
          /\ previousText' = <<>>
          /\ error' = error
          /\ (tokenizer = Undef /\ previousText = <<>>
                /\ (DisposeStep \/ streaming = Undef)
              => session' = session)]_vars

\* C19 witness: onUnmounted runs after streaming was switched off, which had
\* released the tokenizer of a ready session
C19_Witness ==
  /\ last.end = "released"
  /\ unmounted
  /\ last.ops = <<>>
  /\ ~opts.streaming
  /\ highlighter # Undef
  /\ streaming = Undef
  /\ inits = <<>>

\* ======================================================================
\* Properties of the shared loader and of two sessions in one process
\* ======================================================================
\* C12: the import of the engine module is started at most once per process:
\* it is started only when none was started before, an import in flight or
\* settled is never replaced by a new one, and every initHighlighter that waits
\* for the module, of either session, waits for that one import.
C12_LoadStartedOnce ==
  [][/\ (shikiModulePromise' # shikiModulePromise
           => \/ shikiModulePromise = "null" /\ shikiModulePromise' = "pending"
              \/ /\ shikiModulePromise = "pending"
                 /\ shikiModulePromise' \in {"module", "failed"})
     /\ ((peer'.pc = "load" \/ \E k \in 1..Len(inits') : inits'[k].pc = "load")
           => shikiModulePromise' # "null")]_vars

\* C12 witness: both sessions wait for the import in flight, and the first has
\* called initHighlighter a second time
C12_Witness ==
  /\ shikiModulePromise = "pending"
  /\ peer.pc = "load"
  /\ Len(inits) = 2
  /\ \A k \in 1..Len(inits) : inits[k].pc = "load"

\* the first session's own state and the work it has in flight
FirstSession == <<text, seenText, opts, cfgPending, unmounted, session, inits, calls>>

\* C20: no step changes both sessions: a step of one session leaves the other
\* session's tokenizer, previousText, result, loading and error as they are; and
\* the teardown of either session leaves the module-level promise as it is.
C20_SessionsIsolated ==
  [][/\ (FirstSession' = FirstSession \/ peer' = peer)
     /\ ((DisposeStep \/ (~peer.unmounted /\ peer'.unmounted))
           => shikiModulePromise' = shikiModulePromise)]_vars

\* C20 witness: the first session has been torn down after the module was loaded,
\* and the second holds its tokenizer and its published lines
C20_Witness ==
  /\ unmounted
  /\ shikiModulePromise = "module"
  /\ peer.tokenizer # Undef
  /\ peer.tokenizer.buf # <<>>
  /\ peer.streaming # Undef

\* ======================================================================
\* Properties of the outcome of an initialization and of what is published
\* ======================================================================
\* the step in which the config watcher ran initHighlighter with streaming on
EnableStep == cfgPending /\ ~cfgPending' /\ ~unmounted' /\ opts.streaming

\* C21: the step that installs a tokenizer and does not fail leaves, for a
\* non-empty text, the tokenizer cleared and the whole text enqueued as a forced
\* reset, with previousText the text; for an empty text no enqueue, previousText
\* empty and a published result of one empty line with the container style of
\* the theme, loading false.  Every initialization that runs to its end leaves
\* loading false.
C21_InitOutcome ==
  /\ (last.built /\ last.end # "init-failed")
       => IF text # <<>>
          THEN /\ last.update /\ last.force
               /\ last.n = text
               /\ last.ops = <<ClearOp, EnqueueOp(text)>>
               /\ previousText = text
               /\ tokenizer # Undef /\ tokenizer.buf = <<>>
          ELSE /\ last.ops = <<>>
               /\ previousText = <<>>
               /\ tokenizer # Undef /\ tokenizer.buf = <<>>
               /\ streaming = [colorReplacements |-> opts.colorReplacements,
                               lines |-> << <<>> >>,
                               preStyle |-> createPreStyle(ThemeBg(effectiveTheme(opts)),
                                                           ThemeFg(effectiveTheme(opts)))]
               /\ preStyle # Undef
               /\ ~isLoading
  /\ (last.end = "init-done" => ~isLoading)

\* C21 witness: a tokenizer is installed and fed the whole text while the
\* enqueue of an earlier tokenizer is still in flight
C21_Witness ==
  /\ last.built
  /\ last.force
  /\ last.ops = <<ClearOp, EnqueueOp(text)>>
  /\ Len(calls) >= 2

\* C22: an update, from its plan to its publication or failure, leaves the
\* container style as it was; the container style changes only in a step of
\* initHighlighter.
C22_UpdateKeepsContainerStyle ==
  [][/\ ((last'.update /\ ~last'.force)
           \/ last'.end \in {"update-published", "update-failed", "update-threw"})
          => preStyle' = preStyle
     /\ preStyle' # preStyle
          => \/ last'.built
             \/ last'.end = "init-done"
             \/ (last'.end = "released" /\ ~unmounted')]_vars

\* C22 witness: an update has published lines under a container style
C22_Witness ==
  /\ last.end = "update-published"
  /\ inits = <<>>
  /\ preStyle # Undef
  /\ lines # << <<>> >>

\* C23: the configure step with streaming on sets loading and clears error, and
\* when every awaited promise settles loading becomes false again.
C23_ConfigureInitializes ==
  /\ [][EnableStep => /\ isLoading'
                      /\ error' = "null"
                      /\ Len(inits') = Len(inits) + 1]_vars
  /\ (isLoading ~> ~isLoading)

\* C23 witness: a session that holds a tokenizer has been configured again and
\* is loading
C23_Witness ==
  /\ isLoading
  /\ error = "null"
  /\ tokenizer # Undef
  /\ events >= 1
  /\ Len(inits) = 1
  /\ inits[1].pc = "load"

\* C28: the lines an update or an initialization has just published are the
\* lines of the held tokenizer's stable tokens followed by its unstable tokens.
C28_PublishesStableThenUnstable ==
  (last.end = "update-published" \/ (last.built /\ last.end = "init-done"))
    => /\ streaming # Undef
       /\ tokenizer # Undef
       /\ streaming.lines
            = tokensToLineTokens(tokensStable(tokenizer) \o tokensUnstable(tokenizer))

\* C28 witness: lines published from a tokenizer that has both stable and
\* unstable tokens
C28_Witness ==
  /\ last.end = "update-published"
  /\ tokenizer # Undef
  /\ tokensStable(tokenizer) # <<>>
  /\ tokensUnstable(tokenizer) # <<>>

\* ---------------------------------------------------- the line splitter
RECURSIVE ConcatContents(_)
ConcatContents(tokens) ==
  IF tokens = <<>> THEN <<>>
  ELSE Head(tokens).content \o ConcatContents(Tail(tokens))

CountNL(str) == Cardinality({i \in 1..Len(str) : str[i] = NL})

RECURSIVE JoinLines(_)
JoinLines(ls) ==
  IF Len(ls) = 0 THEN <<>>
  ELSE IF Len(ls) = 1 THEN ConcatContents(ls[1])
  ELSE ConcatContents(ls[1]) \o <<NL>> \o JoinLines(Tail(ls))

SplitDone == probe.kind = "split" /\ probe.done

\* the maximal newline-free pieces of a string, by their positions
Pieces(str) ==
  {SubSeq(str, span[1], span[2]) :
     span \in {sp \in (1..Len(str) + 1) \X (0..Len(str)) :
                 /\ sp[1] <= sp[2] + 1
                 /\ \A i \in sp[1]..sp[2] : str[i] # NL
                 /\ (sp[1] = 1 \/ str[sp[1] - 1] = NL)
                 /\ (sp[2] = Len(str) \/ str[sp[2] + 1] = NL)}}

\* C24 (P3): tokensToLineTokens returns k + 1 lines for tokens whose contents
\* concatenate to a text with k newline characters, wherever the newlines
\* lie in the tokens.
C24_LineCount ==
  SplitDone => Len(probe.lines) = CountNL(ConcatContents(probe.tokens)) + 1

\* C24 witness: a stand-alone newline token and a token with a newline in its
\* middle have been split into three lines
C24_Witness ==
  /\ SplitDone
  /\ \E i, j \in 1..Len(probe.tokens) :
        /\ probe.tokens[i].content = <<NL>>
        /\ probe.tokens[j].content = <<"a", NL, "a">>
  /\ Len(probe.lines) = 3

\* C25 (P4): the contents of the output tokens, in order and with one newline
\* between consecutive lines, are the concatenation of the input contents;
\* an output token made from a token with embedded newlines is that token
\* with its content replaced by one of its newline-free pieces.
C25_NoInformationLoss ==
  SplitDone =>
    /\ JoinLines(probe.lines) = ConcatContents(probe.tokens)
    /\ \A l \in 1..Len(probe.lines) : \A n \in 1..Len(probe.lines[l]) :
          LET out == probe.lines[l][n]
          IN \E i \in 1..Len(probe.tokens) :
                /\ out = [probe.tokens[i] EXCEPT !.content = out.content]
                /\ \/ out.content = probe.tokens[i].content
                   \/ /\ Includes(probe.tokens[i].content, NL)
                      /\ out.content \in Pieces(probe.tokens[i].content)

\* C25 witness: one token with an embedded newline has become two tokens of
\* its color on two lines, after a token of the other color
C25_Witness ==
  /\ SplitDone
  /\ Len(probe.tokens) = 2
  /\ probe.tokens[1] = [content |-> <<"a">>, color |-> "#111111"]
  /\ probe.tokens[2] = [content |-> <<"b", NL, "a">>, color |-> "#222222"]
  /\ probe.lines = << <<probe.tokens[1], [content |-> <<"b">>, color |-> "#222222"]>>,
                      <<[content |-> <<"a">>, color |-> "#222222"]>> >>

\* C26: tokensToLineTokens returns at least one line, and exactly one empty
\* line for the empty token list.
C26_NeverZeroLines ==
  SplitDone =>
    /\ Len(probe.lines) >= 1
    /\ probe.tokens = <<>> => probe.lines = << <<>> >>

\* C26 witness: the empty token list has been split
C26_Witness == SplitDone /\ probe.tokens = <<>> /\ probe.lines = << <<>> >>

\* C27: no line returned by tokensToLineTokens has a token with empty content.
C27_EmptyTokenDropped ==
  SplitDone =>
    \A l \in 1..Len(probe.lines) : \A n \in 1..Len(probe.lines[l]) :
       probe.lines[l][n].content # <<>>

\* --------------------------------------------------------- token styles
StyleDone == probe.kind = "style" /\ Len(probe.out) >= 1

\* the keys of the map that equal the color when case is ignored on both sides
KeysIgnoringCase(color, replacements) ==
  {key \in DOMAIN replacements.entries : toLowerCase(key) = toLowerCase(color)}

\* C29: getTokenStyle returns the normalized style unchanged without a map;
\* with a map, color and backgroundColor are the mapped value of a key equal
\* to them when case is ignored on both sides, and every other field is as
\* it was.
C29_CaseInsensitiveSubstitution ==
  StyleDone =>
    LET base == normalizeStyleKeys(probe.given)
        out == probe.out[1]
    IN IF ~probe.givenMap.given THEN out = base
       ELSE /\ DOMAIN out = DOMAIN base
            /\ \A field \in DOMAIN base :
                  IF /\ field \in {"color", "backgroundColor"}
                     /\ KeysIgnoringCase(base[field], probe.givenMap) # {}
                  THEN \E key \in KeysIgnoringCase(base[field], probe.givenMap) :
                          out[field] = probe.givenMap.entries[key]
                  ELSE out[field] = base[field]

C31_ReplacementsNeedNoRebuild ==
  [][ /\ (opts'.colorReplacements # opts.colorReplacements)
           => /\ tokenizer' = tokenizer
              /\ previousText' = previousText
              /\ inits' = inits
              /\ cfgPending' = cfgPending
              /\ last'.ops = <<>>
              /\ ~last'.built
      /\ (last'.end = "update-published" \/ (last'.built /\ last'.end = "init-done"))
           => /\ streaming' # Undef
              /\ streaming'.colorReplacements = opts'.colorReplacements ]_vars

\* C31 witness: the map was assigned while a tokenizer was held, and the next
\* update has published a result that carries it
C31_Witness ==
  /\ last.end = "update-published"
  /\ tokenizer # Undef
  /\ opts.colorReplacements = "map1"
  /\ streaming.colorReplacements = "map1"
  /\ streaming.lines # << <<>> >>
  /\ inits = <<>>

\* ------------------------------------------------ dispatched chunks
\* C32: while a tokenizer is held, the chunks its enqueue has been called with
\* since it was constructed or last cleared concatenate to previousText,
\* whether their promises have fulfilled, rejected or not settled.
C32_DispatchedIsPreviousText ==
  tokenizer # Undef => tokenizer.fed = previousText

\* C32 witness: two chunks were dispatched to the held tokenizer, of which it
\* has not processed all, and an enqueue has failed
C32_Witness ==
  /\ tokenizer # Undef
  /\ Len(tokenizer.fed) >= 2
  /\ tokenizer.fed = previousText
  /\ tokenizer.buf # tokenizer.fed
  /\ error = "EnqueueFailed"
  /\ calls = <<>>

\* ------------------------------------------------- eventual consistency
\* nothing is queued or in flight: only the caller can make the next step
Settled ==
  /\ ~cfgPending
  /\ seenText = text
  /\ inits = <<>>
  /\ calls = <<>>
  /\ shikiModulePromise # "pending"

\* the lines of the tokens a tokenizer for the theme has after the whole text
TokenizedLines(t, lang, theme) ==
  LET tk == Process(NewTokenizer(0, lang, theme), t)
  IN tokensToLineTokens(tokensStable(tk) \o tokensUnstable(tk))

\* C33: when no engine call fails, streaming is on, the session is mounted
\* and nothing is queued or in flight any more, the published lines are the
\* lines of the tokenization of the text under the current language and theme.
C33_EventuallyConsistent ==
  (Settled /\ opts.streaming /\ ~unmounted)
    => lines = TokenizedLines(text, opts.language, effectiveTheme(opts))

\* ------------------------------------------------------------ loading
\* C34: while an initHighlighter invocation is suspended at one of its awaits,
\* isLoading is true.
C34_LoadingWhileInitializing ==
  inits # <<>> => isLoading

\* ------------------------------------------------- lines and style
\* the published lines hold a token colored by the theme
LinesOfTheme(theme) ==
  /\ streaming # Undef
  /\ \E l \in 1..Len(streaming.lines) : \E n \in 1..Len(streaming.lines[l]) :
        streaming.lines[l][n].color = ThemeFg(theme)

\* C35: when no initHighlighter invocation is in flight and the published
\* lines hold tokens of a tokenizer constructed for a theme, the published
\* preStyle is the style made of that theme's background and foreground.
C35_LinesAndStyleOfOneTheme ==
  \A theme \in {DefaultTheme, OtherTheme} :
     (inits = <<>> /\ LinesOfTheme(theme))
       => streaming.preStyle = createPreStyle(ThemeBg(theme), ThemeFg(theme))

\* ---------------------------------------------------------------- error
\* C36: error goes back to null only in a step in which the config watcher
\* calls initHighlighter with streaming on; no update, no switch to
\* non-streaming and no unmount clears it.
C36_ErrorClearedByInitOnly ==
  [][(error # "null" /\ error' = "null") => EnableStep]_vars

\* C36 witness: an update has failed and a later update has published, with
\* the error still set
C36_Witness ==
  /\ error = "EnqueueFailed"
  /\ last.end = "update-published"
  /\ streaming # Undef
  /\ streaming.lines # << <<>> >>

\* ------------------------------------------------------- failed load
\* C37: once the import has failed it stays failed: no step starts another
\* import, no session constructs or holds a tokenizer, an initHighlighter
\* started then waits for the failed import, and every initHighlighter that
\* ends, of either session, ends with the load error.
C37_FailedLoadIsMemoized ==
  [][shikiModulePromise = "failed"
       => /\ shikiModulePromise' = "failed"
          /\ tokenizer' = Undef
          /\ peer'.tokenizer = Undef
          /\ ~last'.built
          /\ EnableStep => /\ Len(inits') = Len(inits) + 1
                           /\ inits'[Len(inits')].pc = "load"
          /\ Len(inits') < Len(inits)
               => error' = "LoadFailed" /\ last'.end = "init-failed"
          /\ (peer.pc = "load" /\ peer'.pc # "load") => peer'.error = "LoadFailed"]_vars

\* C37 witness: the import has failed, the second session has ended with the
\* load error, and the first session, configured after that, has just called
\* initHighlighter, which waits for the failed import
C37_Witness ==
  /\ shikiModulePromise = "failed"
  /\ peer.error = "LoadFailed"
  /\ last.end = "init-started"
  /\ opts.streaming
  /\ isLoading
  /\ error = "null"
  /\ \A k \in 1..Len(inits) : inits[k].pc = "load"
  /\ tokenizer = Undef

\* ------------------------------------------------- the observable lines
\* C38: lines has at least one line in every state of the session.
C38_LinesNeverEmpty ==
  Len(lines) >= 1

\* C38 witness: a session unmounted after a failed update that never
\* published a result shows the one empty line
C38_Witness ==
  /\ unmounted
  /\ error = "EnqueueFailed"
  /\ streaming = Undef
  /\ lines = << <<>> >>

\* ------------------------------------------ text without a tokenizer
\* C39: a run of the text watcher while no tokenizer is held changes none of
\* previousText, the published result, isLoading and error, calls nothing on
\* a tokenizer or the engine and leaves the invocations in flight as they are.
C39_UpdateWithoutTokenizerIsNoOp ==
  [][(seenText' # seenText /\ tokenizer = Undef)
       => /\ previousText' = previousText
          /\ streaming' = streaming
          /\ isLoading' = isLoading
          /\ error' = error
          /\ tokenizer' = Undef
          /\ highlighter' = highlighter
          /\ shikiModulePromise' = shikiModulePromise
          /\ calls' = calls
          /\ inits' = inits
          /\ ~last'.update
          /\ last'.ops = <<>>]_vars

\* C39 witness: the text watcher has run for a text of two characters while
\* the first initHighlighter still waits for the import
C39_Witness ==
  /\ Len(text) = 2
  /\ seenText = text
  /\ ~unmounted
  /\ highlighter = Undef
  /\ tokenizer = Undef
  /\ Len(inits) = 1
  /\ inits[1].pc = "load"
  /\ isLoading
  /\ previousText = <<>>
  /\ streaming = Undef

====
